---------------------------- MODULE Spec2Model ----------------------------
(***************************************************************************)
(* A model of the trace-producing MD5 engine of src/src/App.jsx            *)
(* (buildMd5Trace and its helpers, lines 544-814) and of the playback      *)
(* controller of the App component (lines 113-214 and 247-327).            *)
(*                                                                         *)
(* Representation.                                                         *)
(*  - A JavaScript string is the sequence of its UTF-16 code units.        *)
(*  - A byte is an integer in 0..255.                                      *)
(*  - An unsigned 32-bit word is the pair <<hi, lo>> of its two 16-bit     *)
(*    halves (value = hi * 2^16 + lo): TLC's integers are 32-bit signed,   *)
(*    so a word does not fit in one of them.  The JavaScript operators     *)
(*    &, |, ^, ~ and << yield signed 32-bit integers and >>> 0 reads the   *)
(*    same 32 bits as unsigned; the pair is that bit pattern.              *)
(***************************************************************************)
EXTENDS Integers, Sequences, FiniteSets, TLC

VARIABLES
    \* one call of buildMd5Trace(inputValue, inputType)
    inputValue, inputType, pc, inputBytes, paddedBytes, chunks, events,
    hash, hashBefore, regs, ci, i, trace, error,
    \* one call of padBytes(padIn)
    padIn, padOut, padDone,
    \* one call of digestFromState(dgIn)
    dgIn, dgOut, dgDone,
    \* the App component: its useState cells, the pending autoplay timeout
    \* and the handler that ran last
    appInputType, appInputValue, step, isPlaying, speed, timer, lastAction

traceVars == <<inputValue, inputType, pc, inputBytes, paddedBytes, chunks,
               events, hash, hashBefore, regs, ci, i, trace, error>>
padVars == <<padIn, padOut, padDone>>
dgVars == <<dgIn, dgOut, dgDone>>
appVars == <<appInputType, appInputValue, step, isPlaying, speed, timer,
             lastAction>>
pureVars == <<padVars, dgVars, appVars>>
vars == <<traceVars, padVars, dgVars, appVars>>

---------------------------------------------------------------------------
\* 16-bit halves and 32-bit words

Two8 == 2^8
Two16 == 2^16
Mask16 == Two16 - 1

RECURSIVE Pow2(_)
Pow2(n) == IF n = 0 THEN 1 ELSE 2 * Pow2(n - 1)

RECURSIVE And16(_, _)
And16(x, y) ==
    IF x = 0 \/ y = 0 THEN 0
    ELSE (x % 2) * (y % 2) + 2 * And16(x \div 2, y \div 2)

RECURSIVE Or16(_, _)
Or16(x, y) ==
    IF x = 0 THEN y
    ELSE IF y = 0 THEN x
    ELSE (IF x % 2 = 1 \/ y % 2 = 1 THEN 1 ELSE 0) + 2 * Or16(x \div 2, y \div 2)

RECURSIVE Xor16(_, _)
Xor16(x, y) ==
    IF x = 0 THEN y
    ELSE IF y = 0 THEN x
    ELSE ((x + y) % 2) + 2 * Xor16(x \div 2, y \div 2)

\* x & y, x | y, x ^ y, ~x on 32-bit patterns
And32(x, y) == <<And16(x[1], y[1]), And16(x[2], y[2])>>
Or32(x, y) == <<Or16(x[1], y[1]), Or16(x[2], y[2])>>
Xor32(x, y) == <<Xor16(x[1], y[1]), Xor16(x[2], y[2])>>
Not32(x) == <<Mask16 - x[1], Mask16 - x[2]>>

\* (x1 + x2 + ... ) >>> 0: the exact sum of the words of ws, modulo 2^32
RECURSIVE SumHalf(_, _)
SumHalf(ws, h) == IF ws = <<>> THEN 0 ELSE Head(ws)[h] + SumHalf(Tail(ws), h)

AddMod32(ws) ==
    LET lo == SumHalf(ws, 2)
        hi == SumHalf(ws, 1) + (lo \div Two16)
    IN  <<hi % Two16, lo % Two16>>

\* value << amount, for 0 <= amount <= 31
Shl32(x, n) ==
    IF n >= 16
    THEN <<(x[2] * Pow2(n - 16)) % Two16, 0>>
    ELSE <<(x[1] * Pow2(n) + (x[2] \div Pow2(16 - n))) % Two16,
           (x[2] * Pow2(n)) % Two16>>

\* value >>> amount, for 0 <= amount <= 31
Ushr32(x, n) ==
    IF n >= 16
    THEN <<0, x[1] \div Pow2(n - 16)>>
    ELSE <<x[1] \div Pow2(n),
           ((x[1] % Pow2(n)) * Pow2(16 - n) + (x[2] \div Pow2(n))) % Two16>>

---------------------------------------------------------------------------
\* The constant tables (App.jsx 544-562)

INITIAL_HASH ==
    << <<\h6745, \h2301>>, <<\hefcd, \hab89>>,
       <<\h98ba, \hdcfe>>, <<\h1032, \h5476>> >>

SHIFT_AMOUNTS ==
    << 7, 12, 17, 22, 7, 12, 17, 22, 7, 12, 17, 22, 7, 12, 17, 22,
       5, 9, 14, 20, 5, 9, 14, 20, 5, 9, 14, 20, 5, 9, 14, 20,
       4, 11, 16, 23, 4, 11, 16, 23, 4, 11, 16, 23, 4, 11, 16, 23,
       6, 10, 15, 21, 6, 10, 15, 21, 6, 10, 15, 21, 6, 10, 15, 21 >>

\* floor(|sin(index + 1)| * 2^32) for index 0..63, as the JavaScript
\* expression of lines 558-562 evaluates (TLA+ has no sine: the values are
\* tabulated).
TABLE_K ==
    << <<\hd76a, \ha478>>, <<\he8c7, \hb756>>, <<\h2420, \h70db>>, <<\hc1bd, \hceee>>,
       <<\hf57c, \h0faf>>, <<\h4787, \hc62a>>, <<\ha830, \h4613>>, <<\hfd46, \h9501>>,
       <<\h6980, \h98d8>>, <<\h8b44, \hf7af>>, <<\hffff, \h5bb1>>, <<\h895c, \hd7be>>,
       <<\h6b90, \h1122>>, <<\hfd98, \h7193>>, <<\ha679, \h438e>>, <<\h49b4, \h0821>>,
       <<\hf61e, \h2562>>, <<\hc040, \hb340>>, <<\h265e, \h5a51>>, <<\he9b6, \hc7aa>>,
       <<\hd62f, \h105d>>, <<\h0244, \h1453>>, <<\hd8a1, \he681>>, <<\he7d3, \hfbc8>>,
       <<\h21e1, \hcde6>>, <<\hc337, \h07d6>>, <<\hf4d5, \h0d87>>, <<\h455a, \h14ed>>,
       <<\ha9e3, \he905>>, <<\hfcef, \ha3f8>>, <<\h676f, \h02d9>>, <<\h8d2a, \h4c8a>>,
       <<\hfffa, \h3942>>, <<\h8771, \hf681>>, <<\h6d9d, \h6122>>, <<\hfde5, \h380c>>,
       <<\ha4be, \hea44>>, <<\h4bde, \hcfa9>>, <<\hf6bb, \h4b60>>, <<\hbebf, \hbc70>>,
       <<\h289b, \h7ec6>>, <<\heaa1, \h27fa>>, <<\hd4ef, \h3085>>, <<\h0488, \h1d05>>,
       <<\hd9d4, \hd039>>, <<\he6db, \h99e5>>, <<\h1fa2, \h7cf8>>, <<\hc4ac, \h5665>>,
       <<\hf429, \h2244>>, <<\h432a, \hff97>>, <<\hab94, \h23a7>>, <<\hfc93, \ha039>>,
       <<\h655b, \h59c3>>, <<\h8f0c, \hcc92>>, <<\hffef, \hf47d>>, <<\h8584, \h5dd1>>,
       <<\h6fa8, \h7e4f>>, <<\hfe2c, \he6e0>>, <<\ha301, \h4314>>, <<\h4e08, \h11a1>>,
       <<\hf753, \h7e82>>, <<\hbd3a, \hf235>>, <<\h2ad7, \hd2bb>>, <<\heb86, \hd391>> >>

---------------------------------------------------------------------------
\* leftRotate, bytesToWordLittleEndian (App.jsx 578-589)

\* Variant: the bits shifted out on the left are lost
leftShiftOnly(value, amount) == Shl32(value, amount)

leftRotate(value, amount) ==
    Or32(Shl32(value, amount), Ushr32(value, 32 - amount))

\* bytes[k] of a JavaScript array; a read past the end is undefined, which
\* the bitwise operators take as 0
ByteAt(bytes, k) == IF k + 1 \in DOMAIN bytes THEN bytes[k + 1] ELSE 0

\* Variant: the bytes packed most significant first
bytesToWordBigEndian(bytes, offset) ==
    << ByteAt(bytes, offset + 1) + Two8 * ByteAt(bytes, offset),
       ByteAt(bytes, offset + 3) + Two8 * ByteAt(bytes, offset + 2) >>

\* the four shifted bytes occupy disjoint bits, so | adds them
bytesToWordLittleEndian(bytes, offset) ==
    << ByteAt(bytes, offset + 2) + Two8 * ByteAt(bytes, offset + 3),
       ByteAt(bytes, offset) + Two8 * ByteAt(bytes, offset + 1) >>

---------------------------------------------------------------------------
\* padBytes (App.jsx 641-654)

ChunkSize == 64
LengthOffset == 56
LengthBytes == 8
PadMarker == 128

\* the while loop of lines 645-647
RECURSIVE PadZeros(_)
PadZeros(padded) ==
    IF Len(padded) % ChunkSize # LengthOffset
    THEN PadZeros(Append(padded, 0))
    ELSE padded

\* bitLength >> (offset * 8n), on an integer of unbounded width
RECURSIVE ShiftRightBytes(_, _)
ShiftRightBytes(x, offset) ==
    IF offset = 0 THEN x ELSE ShiftRightBytes(x \div Two8, offset - 1)

LengthByte(bitLength, offset) == ShiftRightBytes(bitLength, offset) % Two8

\* Variant: the 0x80 marker is not appended
padBytesNoMarker(bytes) ==
    LET bitLength == Len(bytes) * 8
        padded == PadZeros(bytes)
    IN  padded \o [k \in 1..LengthBytes |-> LengthByte(bitLength, k - 1)]

\* Variant: the length suffix counts bytes, not bits
padBytesByteLength(bytes) ==
    LET bitLength == Len(bytes)
        padded == PadZeros(Append(bytes, PadMarker))
    IN  padded \o [k \in 1..LengthBytes |-> LengthByte(bitLength, k - 1)]

padBytes(bytes) ==
    LET bitLength == Len(bytes) * 8
        padded == PadZeros(Append(bytes, PadMarker))
    IN  padded \o [k \in 1..LengthBytes |-> LengthByte(bitLength, k - 1)]

---------------------------------------------------------------------------
\* wordToHexLittleEndian, digestFromState (App.jsx 591-601, 656-658)

\* the concatenation of seqs[lo..hi]
RECURSIVE ConcatRange(_, _, _)
ConcatRange(seqs, lo, hi) ==
    IF lo > hi THEN <<>>
    ELSE IF lo = hi THEN seqs[lo]
    ELSE ConcatRange(seqs, lo, (lo + hi) \div 2)
             \o ConcatRange(seqs, ((lo + hi) \div 2) + 1, hi)

Concat(seqs) == ConcatRange(seqs, 1, Len(seqs))

\* the code unit of the digit d of Number.prototype.toString(16)
HexDigitChar(d) == IF d < 10 THEN 48 + d ELSE 87 + d

\* byte.toString(16): no leading zero
ToString16(byte) ==
    IF byte < 16
    THEN <<HexDigitChar(byte)>>
    ELSE <<HexDigitChar(byte \div 16), HexDigitChar(byte % 16)>>

\* str.padStart(targetLength, '0')
RECURSIVE PadStartZero(_, _)
PadStartZero(str, targetLength) ==
    IF Len(str) >= targetLength THEN str
    ELSE PadStartZero(<<48>> \o str, targetLength)

\* (value >>> shift) & 0xff
ByteOfWord(value, shift) == Ushr32(value, shift)[2] % Two8

\* Variant: the bytes are not padded to two digits
wordToHexNoPad(word) ==
    LET bytes == << ByteOfWord(word, 0), ByteOfWord(word, 8),
                    ByteOfWord(word, 16), ByteOfWord(word, 24) >>
    IN  Concat([k \in 1..4 |-> ToString16(bytes[k])])

wordToHexLittleEndian(word) ==
    LET bytes == << ByteOfWord(word, 0), ByteOfWord(word, 8),
                    ByteOfWord(word, 16), ByteOfWord(word, 24) >>
    IN  Concat([k \in 1..4 |-> PadStartZero(ToString16(bytes[k]), 2)])

digestFromState(state) ==
    Concat([k \in 1..Len(state) |-> wordToHexLittleEndian(state[k])])

---------------------------------------------------------------------------
\* parseHexInput, parseInputBytes (App.jsx 611-639)

\* the code units the regular expression class \s matches
Whitespace ==
    {9, 10, 11, 12, 13, 32, 160, 5760, 8232, 8233, 8239, 8287, 12288, 65279}
        \cup (8192..8202)

\* String.prototype.toLowerCase on one code unit.  Only A-Z are mapped:
\* no other character lower-cases to one of 0-9a-f, and the input alphabets
\* below hold no other cased character.
ToLowerCase(c) == IF c \in 65..90 THEN c + 32 ELSE c

HexDigits == (48..57) \cup (97..102)

\* parseInt of one validated digit
HexDigitValue(c) == IF c \in 48..57 THEN c - 48 ELSE c - 87

\* Variant: the cleaned input keeps its letter case
CleanHexKeepCase(value) == SelectSeq(value, LAMBDA c : c \notin Whitespace)

\* value.replace(/\s+/g, '').toLowerCase()
CleanHex(value) ==
    LET kept == SelectSeq(value, LAMBDA c : c \notin Whitespace)
    IN  [k \in 1..Len(kept) |-> ToLowerCase(kept[k])]

Returned(bytes) == [thrown |-> FALSE, message |-> "", bytes |-> bytes]
Thrown(message) == [thrown |-> TRUE, message |-> message, bytes |-> <<>>]

\* Variant: the test for characters outside 0-9a-f is missing
parseHexInputNoCharCheck(value) ==
    LET clean == CleanHex(value)
    IN  IF Len(clean) = 0 THEN Returned(<<>>)
        ELSE IF Len(clean) % 2 # 0
        THEN Thrown("Hex input must contain an even number of digits.")
        ELSE Returned([k \in 1..(Len(clean) \div 2) |->
                 16 * HexDigitValue(clean[2 * k - 1]) + HexDigitValue(clean[2 * k])])

parseHexInput(value) ==
    LET clean == CleanHex(value)
    IN  IF Len(clean) = 0 THEN Returned(<<>>)
        ELSE IF Len(clean) % 2 # 0
        THEN Thrown("Hex input must contain an even number of digits.")
        ELSE IF \E k \in 1..Len(clean) : clean[k] \notin HexDigits
        THEN Thrown("Hex input can only contain 0-9 and a-f.")
        ELSE Returned([k \in 1..(Len(clean) \div 2) |->
                 16 * HexDigitValue(clean[2 * k - 1]) + HexDigitValue(clean[2 * k])])

\* UTF-8 of one Unicode scalar value
EncodeCodePoint(cp) ==
    IF cp < 128 THEN <<cp>>
    ELSE IF cp < 2048 THEN <<192 + (cp \div 64), 128 + (cp % 64)>>
    ELSE IF cp < 65536
    THEN <<224 + (cp \div 4096), 128 + ((cp \div 64) % 64), 128 + (cp % 64)>>
    ELSE <<240 + (cp \div 262144), 128 + ((cp \div 4096) % 64),
           128 + ((cp \div 64) % 64), 128 + (cp % 64)>>

HighSurrogates == 55296..56319
LowSurrogates == 56320..57343

\* new TextEncoder().encode(value), code unit by code unit: a high surrogate
\* followed by a low one is one scalar value (and the low one adds nothing),
\* any other surrogate is replaced by U+FFFD
EncodeUnitAt(value, k) ==
    LET c == value[k] IN
    IF c \in HighSurrogates
    THEN IF k < Len(value) /\ value[k + 1] \in LowSurrogates
         THEN EncodeCodePoint(65536 + (c - 55296) * 1024 + (value[k + 1] - 56320))
         ELSE EncodeCodePoint(65533)
    ELSE IF c \in LowSurrogates
    THEN IF k > 1 /\ value[k - 1] \in HighSurrogates
         THEN <<>>
         ELSE EncodeCodePoint(65533)
    ELSE EncodeCodePoint(c)

TextEncode(value) == Concat([k \in 1..Len(value) |-> EncodeUnitAt(value, k)])

parseInputBytes(value, type) ==
    IF type = "hex" THEN parseHexInput(value) ELSE Returned(TextEncode(value))

---------------------------------------------------------------------------
\* chunkBytes (App.jsx 660-673)

WordsPerChunk == 16

\* Variant: a chunk's index is its byte offset
chunkBytesOffsetIndex(bytes) ==
    [k \in 1..((Len(bytes) + ChunkSize - 1) \div ChunkSize) |->
        LET offset == (k - 1) * ChunkSize
            last == IF offset + ChunkSize < Len(bytes)
                    THEN offset + ChunkSize ELSE Len(bytes)
            block == SubSeq(bytes, offset + 1, last)
        IN  [ index |-> offset,
              bytes |-> block,
              words |-> [w \in 1..WordsPerChunk |->
                            bytesToWordLittleEndian(block, (w - 1) * 4)] ]]

chunkBytes(bytes) ==
    [k \in 1..((Len(bytes) + ChunkSize - 1) \div ChunkSize) |->
        LET offset == (k - 1) * ChunkSize
            last == IF offset + ChunkSize < Len(bytes)
                    THEN offset + ChunkSize ELSE Len(bytes)
            block == SubSeq(bytes, offset + 1, last)
        IN  [ index |-> offset \div ChunkSize,
              bytes |-> block,
              words |-> [w \in 1..WordsPerChunk |->
                            bytesToWordLittleEndian(block, (w - 1) * 4)] ]]

---------------------------------------------------------------------------
\* The events of buildMd5Trace (App.jsx 675-814)

\* Variant: the round loop stops one round early
RoundsOneShort == 64 - 1

RoundsPerChunk == 64

ROUND_FORMULAS ==
    [ F |-> "(B & C) | (~B & D)", G |-> "(D & B) | (~D & C)",
      H |-> "B ^ C ^ D", I |-> "C ^ (B | ~D)" ]

INDEX_FORMULAS ==
    [ F |-> "g = i", G |-> "g = (5i + 1) mod 16",
      H |-> "g = (3i + 5) mod 16", I |-> "g = (7i) mod 16" ]

\* lines 680-692
PreprocessEvent(type, bytes, padded, chunkList) ==
    [ type |-> "preprocess",
      inputType |-> type,
      inputLengthBytes |-> Len(bytes),
      inputLengthBits |-> Len(bytes) * 8,
      paddedLengthBytes |-> Len(padded),
      paddedLengthBits |-> Len(padded) * 8,
      addedBytes |-> Len(padded) - Len(bytes),
      chunkCount |-> Len(chunkList),
      digestPreview |-> digestFromState(INITIAL_HASH) ]

\* lines 697-707: hashBefore = [...hash], [a, b, c, d] = hash
ChunkStartEvent(chunk, h) ==
    [ type |-> "chunk-start",
      chunkIndex |-> chunk.index,
      chunkWords |-> chunk.words,
      hashBefore |-> h,
      registersBefore |-> <<h[1], h[2], h[3], h[4]>>,
      digestPreview |-> digestFromState(h) ]

\* lines 715-735: the round family of round index n
FunctionName(n) ==
    IF n < 16 THEN "F" ELSE IF n < 32 THEN "G" ELSE IF n < 48 THEN "H" ELSE "I"

\* lines 719-737: f >>> 0
FunctionResult(n, b, c, d) ==
    IF n < 16 THEN Or32(And32(b, c), And32(Not32(b), d))
    ELSE IF n < 32 THEN Or32(And32(d, b), And32(Not32(d), c))
    ELSE IF n < 48 THEN Xor32(Xor32(b, c), d)
    ELSE Xor32(c, Or32(b, Not32(d)))

\* lines 719-735: g
MessageIndex(n) ==
    IF n < 16 THEN n
    ELSE IF n < 32 THEN (5 * n + 1) % 16
    ELSE IF n < 48 THEN (3 * n + 5) % 16
    ELSE (7 * n) % 16

\* Variant: the registers are assigned in sequence, d before a
RotateRegistersSequential(before, nextB) ==
    <<before[3], nextB, before[2], before[3]>>

\* lines 742-745: a = dBefore, d = cBefore, c = bBefore, b = nextB
RotateRegisters(before, nextB) == <<before[4], nextB, before[2], before[3]>>

\* Variant: the sums are not reduced with >>> 0
AddRegistersNoWrap(h, r) ==
    [k \in 1..4 |->
        LET lo == h[k][2] + r[k][2]
        IN  <<h[k][1] + r[k][1] + (lo \div Two16), lo % Two16>>]

\* lines 775-780 and 747-752: each entry (h[k] + r[k]) >>> 0
AddRegisters(h, r) == [k \in 1..4 |-> AddMod32(<<h[k], r[k]>>)]

\* lines 709-772: round n of a chunk, from the registers r before it
RoundEvent(chunk, hBefore, r, n) ==
    LET functionName == FunctionName(n)
        functionResult == FunctionResult(n, r[2], r[3], r[4])
        g == MessageIndex(n)
        sum == AddMod32(<<r[1], functionResult, TABLE_K[n + 1], chunk.words[g + 1]>>)
        rotated == leftRotate(sum, SHIFT_AMOUNTS[n + 1])
        nextB == AddMod32(<<r[2], rotated>>)
        after == RotateRegisters(r, nextB)
    IN  [ type |-> "round",
          chunkIndex |-> chunk.index,
          roundIndex |-> n,
          stepWithinChunk |-> n + 1,
          functionName |-> functionName,
          functionFormula |-> ROUND_FORMULAS[functionName],
          indexFormula |-> INDEX_FORMULAS[functionName],
          g |-> g,
          shift |-> SHIFT_AMOUNTS[n + 1],
          constant |-> TABLE_K[n + 1],
          messageWord |-> chunk.words[g + 1],
          functionResult |-> functionResult,
          sum |-> sum,
          rotated |-> rotated,
          registersBefore |-> <<r[1], r[2], r[3], r[4]>>,
          registersAfter |-> after,
          digestPreview |-> digestFromState(AddRegisters(hBefore, after)) ]

\* Variant: hashBefore aliases the hash that the fold has updated
ChunkEndEventAliased(chunk, hBefore, r, hAfter) ==
    [ type |-> "chunk-end",
      chunkIndex |-> chunk.index,
      hashBefore |-> hAfter,
      registersBeforeAdd |-> <<r[1], r[2], r[3], r[4]>>,
      hashAfter |-> hAfter,
      digestAfterChunk |-> digestFromState(hAfter),
      digestPreview |-> digestFromState(hAfter) ]

\* lines 782-790, with hAfter the hash of lines 775-780
ChunkEndEvent(chunk, hBefore, r, hAfter) ==
    [ type |-> "chunk-end",
      chunkIndex |-> chunk.index,
      hashBefore |-> hBefore,
      registersBeforeAdd |-> <<r[1], r[2], r[3], r[4]>>,
      hashAfter |-> hAfter,
      digestAfterChunk |-> digestFromState(hAfter),
      digestPreview |-> digestFromState(hAfter) ]

\* lines 793-801
DoneEvent(h, chunkList) ==
    [ type |-> "done",
      hash |-> h,
      digest |-> digestFromState(h),
      chunkCount |-> Len(chunkList),
      digestPreview |-> digestFromState(h) ]

\* lines 803-813
TraceRecord(type, bytes, padded, chunkList, evs, h) ==
    [ inputType |-> type,
      inputBytes |-> bytes,
      paddedBytes |-> padded,
      chunks |-> chunkList,
      events |-> evs,
      digest |-> digestFromState(h),
      constants |-> TABLE_K,
      shifts |-> SHIFT_AMOUNTS,
      initialHash |-> INITIAL_HASH ]

NoTrace == [returned |-> FALSE]

---------------------------------------------------------------------------
\* buildMd5Trace, one step of its control flow per action.
\* pc: "start" (line 676), "chunk" (696, the head of for..of), "round" (709),
\* "fold" (775), "finish" (793), "done" (returned), "thrown".

\* lines 676-694; the for..of loop is entered when there is a chunk
Preprocess ==
    /\ pc = "start"
    /\ LET parsed == parseInputBytes(inputValue, inputType) IN
       /\ ~parsed.thrown
       /\ LET padded == padBytes(parsed.bytes)
              chunkList == chunkBytes(padded)
          IN  /\ inputBytes' = parsed.bytes
              /\ paddedBytes' = padded
              /\ chunks' = chunkList
              /\ events' = <<PreprocessEvent(inputType, parsed.bytes, padded, chunkList)>>
              /\ pc' = IF Len(chunkList) > 0 THEN "chunk" ELSE "finish"
    /\ hash' = INITIAL_HASH
    /\ ci' = 0
    /\ UNCHANGED <<inputValue, inputType, hashBefore, regs, i, trace, error, pureVars>>

\* line 676 when parseHexInput throws (618, 622): nothing else runs
ParseThrows ==
    /\ pc = "start"
    /\ LET parsed == parseInputBytes(inputValue, inputType) IN
       /\ parsed.thrown
       /\ error' = parsed.message
    /\ pc' = "thrown"
    /\ UNCHANGED <<inputValue, inputType, inputBytes, paddedBytes, chunks, events,
                   hash, hashBefore, regs, ci, i, trace, pureVars>>

\* Variant: the registers restart from INITIAL_HASH in every chunk
ChunkStartFromInitial ==
    /\ pc = "chunk"
    /\ hashBefore' = hash
    /\ regs' = INITIAL_HASH
    /\ events' = Append(events, ChunkStartEvent(chunks[ci + 1], hash))
    /\ i' = 0
    /\ pc' = "round"
    /\ UNCHANGED <<inputValue, inputType, inputBytes, paddedBytes, chunks,
                   hash, ci, trace, error, pureVars>>

\* lines 696-707
ChunkStart ==
    /\ pc = "chunk"
    /\ hashBefore' = hash
    /\ regs' = hash
    /\ events' = Append(events, ChunkStartEvent(chunks[ci + 1], hash))
    /\ i' = 0
    /\ pc' = "round"
    /\ UNCHANGED <<inputValue, inputType, inputBytes, paddedBytes, chunks,
                   hash, ci, trace, error, pureVars>>

\* lines 709-773, one iteration
Round ==
    /\ pc = "round"
    /\ i < RoundsPerChunk
    /\ LET event == RoundEvent(chunks[ci + 1], hashBefore, regs, i) IN
       /\ regs' = event.registersAfter
       /\ events' = Append(events, event)
    /\ i' = i + 1
    /\ pc' = IF i + 1 < RoundsPerChunk THEN "round" ELSE "fold"
    /\ UNCHANGED <<inputValue, inputType, inputBytes, paddedBytes, chunks,
                   hash, hashBefore, ci, trace, error, pureVars>>

\* lines 775-791
ChunkEnd ==
    /\ pc = "fold"
    /\ LET hAfter == AddRegisters(hash, regs) IN
       /\ hash' = hAfter
       /\ events' = Append(events, ChunkEndEvent(chunks[ci + 1], hashBefore, regs, hAfter))
    /\ ci' = ci + 1
    /\ pc' = IF ci + 1 < Len(chunks) THEN "chunk" ELSE "finish"
    /\ UNCHANGED <<inputValue, inputType, inputBytes, paddedBytes, chunks,
                   hashBefore, regs, i, error, trace, pureVars>>

\* lines 793-814
Done ==
    /\ pc = "finish"
    /\ LET evs == Append(events, DoneEvent(hash, chunks)) IN
       /\ events' = evs
       /\ trace' = TraceRecord(inputType, inputBytes, paddedBytes, chunks, evs, hash)
    /\ pc' = "done"
    /\ UNCHANGED <<inputValue, inputType, inputBytes, paddedBytes, chunks,
                   hash, hashBefore, regs, ci, i, error, pureVars>>

---------------------------------------------------------------------------
\* buildMd5Trace as a function of its arguments: the same steps, composed

RECURSIVE RoundEvents(_, _, _, _)
RoundEvents(chunk, hBefore, r, n) ==
    IF n >= RoundsPerChunk THEN <<>>
    ELSE LET event == RoundEvent(chunk, hBefore, r, n)
         IN  <<event>> \o RoundEvents(chunk, hBefore, event.registersAfter, n + 1)

RECURSIVE ChunkEvents(_, _, _)
ChunkEvents(chunkList, k, h) ==
    IF k > Len(chunkList) THEN <<DoneEvent(h, chunkList)>>
    ELSE LET rounds == RoundEvents(chunkList[k], h, h, 0)
             r == IF rounds = <<>> THEN h ELSE rounds[Len(rounds)].registersAfter
             hAfter == AddRegisters(h, r)
         IN  <<ChunkStartEvent(chunkList[k], h)>> \o rounds
                 \o <<ChunkEndEvent(chunkList[k], h, r, hAfter)>>
                 \o ChunkEvents(chunkList, k + 1, hAfter)

buildMd5Trace(value, type) ==
    LET parsed == parseInputBytes(value, type) IN
    IF parsed.thrown THEN [thrown |-> TRUE, message |-> parsed.message]
    ELSE LET padded == padBytes(parsed.bytes)
             chunkList == chunkBytes(padded)
             evs == <<PreprocessEvent(type, parsed.bytes, padded, chunkList)>>
                        \o ChunkEvents(chunkList, 1, INITIAL_HASH)
         IN  [ thrown |-> FALSE,
               trace |-> TraceRecord(type, parsed.bytes, padded, chunkList, evs,
                                     evs[Len(evs)].hash) ]

---------------------------------------------------------------------------
\* The inputs of the buildMd5Trace specification

MaxTextLen == 2
MaxHexLen == 2

\* "a", U+00E9 (two bytes of UTF-8), an unpaired high surrogate
TextAlphabet == {97, 233, 55357}
\* "6", "1", "C", " ", "z"
HexAlphabet == {54, 49, 67, 32, 122}

SeqsUpTo(S, n) == UNION {[1..k -> S] : k \in 0..n}
Repeat(c, n) == [k \in 1..n |-> c]

\* "abc", 55, 56 and 120 times "a" (one, two and three chunks), U+1F600 as a
\* surrogate pair, U+20AC
NamedText ==
    { <<97, 98, 99>>, Repeat(97, 55), Repeat(97, 56), Repeat(97, 120),
      <<55357, 56832>>, <<8364>> }
\* "61 62 63", "616263", "61\t62\n63", "4A4b", "a", "zz", "6g", "61 6"
NamedHex ==
    { <<54, 49, 32, 54, 50, 32, 54, 51>>, <<54, 49, 54, 50, 54, 51>>,
      <<54, 49, 9, 54, 50, 10, 54, 51>>, <<52, 65, 52, 98>>,
      <<97>>, <<122, 122>>, <<54, 103>>, <<54, 49, 32, 54>> }

TextInputs == SeqsUpTo(TextAlphabet, MaxTextLen) \cup NamedText
HexInputs == SeqsUpTo(HexAlphabet, MaxHexLen) \cup NamedHex

\* no timeout is pending
NoTimer == [pending |-> FALSE]

DefaultSpeed == 180

\* the App as mounted (lines 116-120), before any handler has run
IdleApp ==
    /\ appInputType = "text"
    /\ appInputValue = <<97, 98, 99>>
    /\ step = 0
    /\ isPlaying = FALSE
    /\ speed = DefaultSpeed
    /\ timer = NoTimer
    /\ lastAction = "mount"

IdlePad ==
    /\ padIn = <<>>
    /\ padOut = <<>>
    /\ padDone = FALSE

IdleDigest ==
    /\ dgIn = <<>>
    /\ dgOut = <<>>
    /\ dgDone = FALSE

Init ==
    /\ \/ inputType = "text" /\ inputValue \in TextInputs
       \/ inputType = "hex" /\ inputValue \in HexInputs
    /\ pc = "start"
    /\ inputBytes = <<>>
    /\ paddedBytes = <<>>
    /\ chunks = <<>>
    /\ events = <<>>
    /\ hash = INITIAL_HASH
    /\ hashBefore = INITIAL_HASH
    /\ regs = INITIAL_HASH
    /\ ci = 0
    /\ i = 0
    /\ trace = NoTrace
    /\ error = ""
    /\ IdlePad
    /\ IdleDigest
    /\ IdleApp

Next ==
    \/ Preprocess
    \/ ParseThrows
    \/ ChunkStart
    \/ Round
    \/ ChunkEnd
    \/ Done

Spec == Init /\ [][Next]_vars

---------------------------------------------------------------------------
\* Bounds of the padBytes specification

MaxPadLen == 130
FillBytes == {0, 97, 128, 255}

\* the byte sequence of length n whose k-th byte follows from a seed
Fill(n, seed) == [k \in 1..n |-> (seed + (k - 1) * 7) % Two8]

IdleTrace ==
    /\ inputValue = <<>>
    /\ inputType = "text"
    /\ pc = "idle"
    /\ inputBytes = <<>>
    /\ paddedBytes = <<>>
    /\ chunks = <<>>
    /\ events = <<>>
    /\ hash = INITIAL_HASH
    /\ hashBefore = INITIAL_HASH
    /\ regs = INITIAL_HASH
    /\ ci = 0
    /\ i = 0
    /\ trace = NoTrace
    /\ error = ""

InitPad ==
    /\ IdleTrace
    /\ IdleDigest
    /\ IdleApp
    /\ \E n \in 0..MaxPadLen, seed \in FillBytes : padIn = Fill(n, seed)
    /\ padOut = <<>>
    /\ padDone = FALSE

CallPadBytes ==
    /\ ~padDone
    /\ padOut' = padBytes(padIn)
    /\ padDone' = TRUE
    /\ UNCHANGED <<padIn, traceVars, dgVars, appVars>>

NextPad == CallPadBytes

SpecPad == InitPad /\ [][NextPad]_vars

---------------------------------------------------------------------------
\* digestFromState applied to one hash state

\* 16-bit halves with bytes and digits of every kind: small, large, with a
\* zero high digit, with a zero byte
HalfSamples == {0, \h000f, \h0a10, \h2301, \hffff}
WordSamples == {<<h, l>> : h \in {\h0000, \h6745, \hf00f}, l \in HalfSamples}
\* H1..H3 are drawn from fewer words than H0
FewWords == { <<\h0000, \h0000>>, <<\hefcd, \hab89>>, <<\h0f00, \h00a0>> }

InitDigest ==
    /\ IdleTrace
    /\ IdlePad
    /\ IdleApp
    /\ \E w0 \in WordSamples, w1, w2, w3 \in FewWords : dgIn = <<w0, w1, w2, w3>>
    /\ dgOut = <<>>
    /\ dgDone = FALSE

CallDigestFromState ==
    /\ ~dgDone
    /\ dgOut' = digestFromState(dgIn)
    /\ dgDone' = TRUE
    /\ UNCHANGED <<dgIn, traceVars, padVars, appVars>>

NextDigest == CallDigestFromState

SpecDigest == InitDigest /\ [][NextDigest]_vars

---------------------------------------------------------------------------
\* The playback controller of the App component.
\*
\* A handler runs to completion; React then renders with the new state, which
\* calls buildMd5Trace again when inputValue or inputType changed (useMemo,
\* lines 123-135), and runs the autoplay effect (its cleanup clears the
\* pending timeout, its body may set a new one) before the browser runs
\* another handler or timeout.  The call of buildMd5Trace is the one modelled
\* above, step by step; no handler runs before it has returned or thrown.

JumpSize == 10
SpeedMin == 60
SpeedMax == 900
SpeedStep == 20
InputTypes == {"text", "hex"}

\* "abc", "zz", and 56 times "a" (two chunks as text, one as hex)
AppValues == { <<97, 98, 99>>, <<122, 122>>, Repeat(97, LengthOffset) }

\* the positions of the range input, and those the user moves it to
SliderPositions ==
    {s \in SpeedMin..SpeedMax : (s - SpeedMin) % SpeedStep = 0}
Speeds == {s \in SliderPositions : s \in {SpeedMin, DefaultSpeed, SpeedMax}}

MathMin(a, b) == IF a <= b THEN a ELSE b
MathMax(a, b) == IF a >= b THEN a ELSE b

\* Variant: values below min are not raised to min
clampNoFloor(value, min, max) == MathMin(max, value)

clamp(value, min, max) == MathMin(max, MathMax(min, value))

\* the render is complete: buildMd5Trace has returned or thrown
Rendered == pc \in {"done", "thrown"}

\* the values of one render (lines 137-141); trace is null when
\* buildMd5Trace threw
hasTrace == trace # NoTrace
maxStep == IF hasTrace THEN Len(trace.events) - 1 ELSE 0
currentStep == clamp(step, 0, maxStep)
playingActive == isPlaying /\ currentStep < maxStep

\* lines 181-195: the timeout the effect leaves pending after a render with
\* the same trace; its callback keeps the maxStep of that render
AutoplayEffect(nextStep, playing, delay) ==
    IF ~playing \/ ~hasTrace THEN NoTimer
    ELSE IF clamp(nextStep, 0, maxStep) >= maxStep THEN NoTimer
    ELSE [pending |-> TRUE, maxStep |-> maxStep, delay |-> delay]

\* a handler that leaves the input alone: its state is committed, the trace
\* is the memoized one, the effect runs
Commit(nextStep, playing, delay, action) ==
    /\ Rendered
    /\ step' = nextStep
    /\ isPlaying' = playing
    /\ speed' = delay
    /\ timer' = AutoplayEffect(nextStep, playing, delay)
    /\ lastAction' = action
    /\ UNCHANGED <<appInputType, appInputValue, traceVars, padVars, dgVars>>

\* lines 211-214 followed by a change of the input: buildMd5Trace(value,
\* type) is called anew; the effect returns at line 182, isPlaying being
\* false
ResetAndRender(type, value, action) ==
    /\ Rendered
    /\ appInputType' = type
    /\ appInputValue' = value
    /\ step' = 0
    /\ isPlaying' = FALSE
    /\ timer' = NoTimer
    /\ lastAction' = action
    /\ inputValue' = value
    /\ inputType' = type
    /\ pc' = "start"
    /\ inputBytes' = <<>>
    /\ paddedBytes' = <<>>
    /\ chunks' = <<>>
    /\ events' = <<>>
    /\ hash' = INITIAL_HASH
    /\ hashBefore' = INITIAL_HASH
    /\ regs' = INITIAL_HASH
    /\ ci' = 0
    /\ i' = 0
    /\ trace' = NoTrace
    /\ error' = ""
    /\ UNCHANGED <<speed, padVars, dgVars>>

\* lines 204-209: the step that onStepChange(nextStep) sets
onStepChange(nextStep) ==
    IF ~hasTrace THEN step ELSE clamp(nextStep, 0, maxStep)

\* lines 253-256: resetPlayback, then setInputType
ChangeInputType ==
    \E type \in InputTypes \ {appInputType} :
        ResetAndRender(type, appInputValue, "mode")

\* lines 267-270: resetPlayback, then setInputValue
ChangeInputValue ==
    \E value \in AppValues \ {appInputValue} :
        ResetAndRender(appInputType, value, "input")

\* line 278
First ==
    /\ hasTrace /\ currentStep # 0
    /\ Commit(onStepChange(0), isPlaying, speed, "step")

\* line 281
Back10 ==
    /\ hasTrace /\ currentStep # 0
    /\ Commit(onStepChange(currentStep - JumpSize), isPlaying, speed, "step")

\* line 284
Back1 ==
    /\ hasTrace /\ currentStep # 0
    /\ Commit(onStepChange(currentStep - 1), isPlaying, speed, "step")

\* lines 287-304
PlayPause ==
    /\ hasTrace /\ maxStep # 0
    /\ IF playingActive
       THEN Commit(step, FALSE, speed, "play/pause")
       ELSE Commit(IF currentStep >= maxStep THEN 0 ELSE step, TRUE, speed,
                   "play/pause")

\* line 305
Forward1 ==
    /\ hasTrace /\ currentStep < maxStep
    /\ Commit(onStepChange(currentStep + 1), isPlaying, speed, "step")

\* line 308
Forward10 ==
    /\ hasTrace /\ currentStep < maxStep
    /\ Commit(onStepChange(currentStep + JumpSize), isPlaying, speed, "step")

\* line 311
Last ==
    /\ hasTrace /\ currentStep < maxStep
    /\ Commit(onStepChange(maxStep), isPlaying, speed, "step")

\* line 323
ChangeSpeed ==
    \E delay \in Speeds \ {speed} :
        Commit(step, isPlaying, delay, "speed")

\* lines 190-192: the pending timeout fires
TimerTick ==
    /\ timer.pending
    /\ Commit(MathMin(step + 1, timer.maxStep), isPlaying, speed, "tick")

\* the App is mounted and renders for the first time
InitApp ==
    /\ IdleApp
    /\ inputValue = appInputValue
    /\ inputType = appInputType
    /\ pc = "start"
    /\ inputBytes = <<>>
    /\ paddedBytes = <<>>
    /\ chunks = <<>>
    /\ events = <<>>
    /\ hash = INITIAL_HASH
    /\ hashBefore = INITIAL_HASH
    /\ regs = INITIAL_HASH
    /\ ci = 0
    /\ i = 0
    /\ trace = NoTrace
    /\ error = ""
    /\ IdlePad
    /\ IdleDigest

NextApp ==
    \/ Next
    \/ ChangeInputType
    \/ ChangeInputValue
    \/ First
    \/ Back10
    \/ Back1
    \/ PlayPause
    \/ Forward1
    \/ Forward10
    \/ Last
    \/ ChangeSpeed
    \/ TimerTick

SpecApp == InitApp /\ [][NextApp]_vars

---------------------------------------------------------------------------
\* Properties

\* the characters "0".."9", "a".."f", by digit value
HexChars == << "0", "1", "2", "3", "4", "5", "6", "7",
               "8", "9", "a", "b", "c", "d", "e", "f" >>
\* their code units
HexCodes == << 48, 49, 50, 51, 52, 53, 54, 55, 56, 57, 97, 98, 99, 100, 101, 102 >>

\* a string of hex digits, read as a TLA+ string
RECURSIVE AsString(_)
AsString(units) ==
    IF units = <<>> THEN ""
    ELSE (IF \E d \in 1..16 : HexCodes[d] = Head(units)
          THEN HexChars[CHOOSE d \in 1..16 : HexCodes[d] = Head(units)]
          ELSE "?") \o AsString(Tail(units))

\* The steps of Spec build the value of the operator buildMd5Trace, and a
\* throwing parse is a throwing call.
StepsBuildTheTrace ==
    /\ pc = "done" =>
           buildMd5Trace(inputValue, inputType) = [thrown |-> FALSE, trace |-> trace]
    /\ pc = "thrown" =>
           buildMd5Trace(inputValue, inputType) = [thrown |-> TRUE, message |-> error]

\* C1: in text mode the returned digest is the RFC 1321 MD5 of the input:
\* d41d8cd98f00b204e9800998ecf8427e for "", 900150983cd24fb0d6963f7d28e17f72
\* for "abc" (and, from the RFC's test suite, 0cc175b9c0f1b6a831c399e269772661
\* for "a").
C1_ReferenceDigests ==
    (pc = "done" /\ inputType = "text") =>
        /\ inputValue = <<>> =>
               AsString(trace.digest) = "d41d8cd98f00b204e9800998ecf8427e"
        /\ inputValue = <<97, 98, 99>> =>
               AsString(trace.digest) = "900150983cd24fb0d6963f7d28e17f72"
        /\ inputValue = <<97>> =>
               AsString(trace.digest) = "0cc175b9c0f1b6a831c399e269772661"

C1_Witness ==
    /\ pc = "done"
    /\ inputType = "text"
    /\ inputValue = <<97, 98, 99>>
    /\ AsString(trace.digest) = "900150983cd24fb0d6963f7d28e17f72"

\* C2: padBytes returns a sequence whose length is a positive multiple of 64
\* and exceeds the input's length by at least 9 and at most 72.
C2_PaddedLength ==
    padDone =>
        /\ Len(padOut) > 0
        /\ Len(padOut) % 64 = 0
        /\ Len(padOut) - Len(padIn) >= 9
        /\ Len(padOut) - Len(padIn) <= 72

\* an input of 64 + 56 bytes, for which a whole extra block is added
C2_Witness ==
    /\ padDone
    /\ Len(padIn) = 120
    /\ Len(padOut) = Len(padIn) + 72

\* C3: padBytes(b) is b, then 0x80, then only 0x00 up to a length congruent
\* to 56 mod 64, then 8 bytes encoding 8 * Len(b) little-endian (8 * Len(b)
\* is below 2^24 here, so the three low bytes carry it and the rest are 0).
C3_PaddedContent ==
    padDone =>
        LET n == Len(padIn)
            m == Len(padOut)
        IN  /\ m >= n + 9
            /\ SubSeq(padOut, 1, n) = padIn
            /\ padOut[n + 1] = 128
            /\ \A k \in (n + 2)..(m - 8) : padOut[k] = 0
            /\ (m - 8) % 64 = 56
            /\ \A k \in (m - 7)..m : padOut[k] \in 0..255
            /\ padOut[m - 7] + 256 * padOut[m - 6] + 65536 * padOut[m - 5] = 8 * n
            /\ \A k \in (m - 4)..m : padOut[k] = 0

\* an input whose bit length needs two bytes
C3_Witness ==
    /\ padDone
    /\ Len(padIn) = 100
    /\ padOut[Len(padOut) - 7] = 32
    /\ padOut[Len(padOut) - 6] = 3

\* C4: a returned trace has 2 + 66 * chunkCount events, where chunkCount is
\* the padded length divided by 64, the number of chunks and the value the
\* Preprocess event records.
C4_EventCount ==
    pc = "done" =>
        LET chunkCount == Len(trace.paddedBytes) \div 64
        IN  /\ Len(trace.paddedBytes) % 64 = 0
            /\ Len(trace.chunks) = chunkCount
            /\ trace.events[1].type = "preprocess"
            /\ trace.events[1].chunkCount = chunkCount
            /\ Len(trace.events) = 2 + 66 * chunkCount

C4_Witness ==
    /\ pc = "done"
    /\ Len(trace.chunks) = 2
    /\ Len(trace.events) = 134

\* the event the order of C5 puts at position k of a trace of n chunks
C5_InPlace(e, k, n) ==
    LET c == (k - 2) \div 66
        r == (k - 2) % 66
    IN  IF k = 1 THEN e.type = "preprocess"
        ELSE IF k = 2 + 66 * n THEN e.type = "done"
        ELSE IF r = 0 THEN e.type = "chunk-start" /\ e.chunkIndex = c
        ELSE IF r <= 64
        THEN /\ e.type = "round"
             /\ e.chunkIndex = c
             /\ e.roundIndex = r - 1
             /\ e.stepWithinChunk = e.roundIndex + 1
        ELSE e.type = "chunk-end" /\ e.chunkIndex = c

\* C5: the events are emitted in execution order: one Preprocess first; per
\* chunk, in ascending chunk index, one ChunkStart, the Rounds 0..63 in
\* order with stepWithinChunk = roundIndex + 1, one ChunkEnd; then one Done,
\* last, whose digest is the trace's digest.
C5_EventOrder ==
    /\ \A k \in 1..Len(events) :
           /\ k <= 2 + 66 * Len(chunks)
           /\ C5_InPlace(events[k], k, Len(chunks))
    /\ pc = "done" =>
           /\ trace.events = events
           /\ Len(events) = 2 + 66 * Len(chunks)
           /\ events[Len(events)].type = "done"
           /\ events[Len(events)].digest = trace.digest

\* the second chunk of a two-chunk trace has begun, and the trace is complete
C5_Witness ==
    /\ pc = "done"
    /\ Len(chunks) = 2
    /\ events[68].type = "chunk-start"
    /\ events[68].chunkIndex = 1
    /\ events[134].type = "done"

\* the input without the characters \s matches
NonWhitespace(value) == SelectSeq(value, LAMBDA c : c \notin Whitespace)

\* 0-9, A-F, a-f
IsHexChar(c) == c \in (48..57) \cup (65..70) \cup (97..102)

InvalidHex(value) ==
    LET s == NonWhitespace(value)
    IN  \/ Len(s) % 2 = 1
        \/ \E k \in 1..Len(s) : ~IsHexChar(s[k])

\* C6: in hex mode, an input with an odd number of characters after
\* whitespace removal, or with a character outside 0-9a-fA-F, makes
\* buildMd5Trace fail: it throws, emits no event and returns no trace.
C6_InvalidHexFails ==
    (inputType = "hex" /\ InvalidHex(inputValue)) =>
        /\ pc \in {"start", "thrown"}
        /\ pc = "thrown" =>
               error \in { "Hex input must contain an even number of digits.",
                           "Hex input can only contain 0-9 and a-f." }
        /\ events = <<>>
        /\ inputBytes = <<>>
        /\ paddedBytes = <<>>
        /\ chunks = <<>>
        /\ trace = NoTrace

\* "zz" has been rejected
C6_Witness ==
    /\ inputType = "hex"
    /\ inputValue = <<122, 122>>
    /\ pc = "thrown"
    /\ events = <<>>

\* the value of a hex digit of either case
DigitOf(c) ==
    IF c \in 48..57 THEN c - 48 ELSE IF c \in 65..70 THEN c - 55 ELSE c - 87

\* the bytes a valid hex input denotes: its digit pairs, in order
DigitPairs(value) ==
    LET s == NonWhitespace(value)
    IN  [k \in 1..(Len(s) \div 2) |-> 16 * DigitOf(s[2 * k - 1]) + DigitOf(s[2 * k])]

\* C7: hex mode decodes the digit pairs in input order, ignoring whitespace
\* and letter case; a hex input and a text input denoting the same bytes
\* give the same inputBytes, paddedBytes and digest.
C7_HexMatchesText ==
    inputType = "hex" /\ ~InvalidHex(inputValue) =>
        /\ pc # "thrown"
        /\ pc = "done" =>
            /\ trace.inputBytes = DigitPairs(inputValue)
            /\ \A t \in TextInputs :
                   TextEncode(t) = DigitPairs(inputValue) =>
                       LET r == buildMd5Trace(t, "text")
                       IN  /\ ~r.thrown
                           /\ r.trace.inputBytes = trace.inputBytes
                           /\ r.trace.paddedBytes = trace.paddedBytes
                           /\ r.trace.digest = trace.digest

\* hex "61 62 63" has given the bytes and the digest of text "abc"
C7_Witness ==
    /\ pc = "done"
    /\ inputType = "hex"
    /\ inputValue = <<54, 49, 32, 54, 50, 32, 54, 51>>
    /\ <<97, 98, 99>> \in TextInputs
    /\ trace.inputBytes = TextEncode(<<97, 98, 99>>)
    /\ AsString(trace.digest) = "900150983cd24fb0d6963f7d28e17f72"

\* byte b (0 the least significant) of the word <<hi, lo>>
C8_Byte(word, b) ==
    IF b = 0 THEN word[2] % 256
    ELSE IF b = 1 THEN word[2] \div 256
    ELSE IF b = 2 THEN word[1] % 256
    ELSE word[1] \div 256

\* the digit value of a character of a digest
C8_Digit(c) == (CHOOSE d \in 1..16 : HexCodes[d] = c) - 1

\* the word whose 8 digits start at position p of the digest s
C8_WordAt(s, p) ==
    LET byte(b) == 16 * C8_Digit(s[p + 2 * b]) + C8_Digit(s[p + 2 * b + 1])
    IN  <<byte(2) + 256 * byte(3), byte(0) + 256 * byte(1)>>

\* C8: digestFromState returns exactly 32 characters of 0-9a-f: H0, H1, H2,
\* H3 in order, each as its 4 bytes least significant first, each byte as 2
\* lowercase hex digits; the words are recovered from the string.
C8_DigestFormat ==
    dgDone =>
        /\ Len(dgOut) = 32
        /\ \A k \in 1..Len(dgOut) : \E d \in 1..16 : HexCodes[d] = dgOut[k]
        /\ \A w \in 1..4, b \in 0..3 :
               LET p == 8 * (w - 1) + 2 * b + 1
               IN  /\ dgOut[p] = HexCodes[(C8_Byte(dgIn[w], b) \div 16) + 1]
                   /\ dgOut[p + 1] = HexCodes[(C8_Byte(dgIn[w], b) % 16) + 1]
        /\ [w \in 1..4 |-> C8_WordAt(dgOut, 8 * (w - 1) + 1)] = dgIn

\* the word 0x67452301 has been written as "01234567"
C8_Witness ==
    /\ dgDone
    /\ dgIn[1] = <<\h6745, \h2301>>
    /\ AsString(SubSeq(dgOut, 1, 8)) = "01234567"

\* x is an unsigned 32-bit value: two halves in 0..65535
IsWord(x) ==
    /\ DOMAIN x = 1..2
    /\ x[1] \in 0..65535
    /\ x[2] \in 0..65535

\* z = (x + y) mod 2^32, on words as pairs of 16-bit halves
IsSumMod32(z, x, y) ==
    /\ IsWord(z)
    /\ \E c0, c1 \in {0, 1} :
           /\ x[2] + y[2] = z[2] + 65536 * c0
           /\ x[1] + y[1] + c0 = z[1] + 65536 * c1

\* C9: a Round event's registers after are its registers before rotated by
\* one position with only B recomputed: after A = before D, after C =
\* before B, after D = before C, after B = (before B + rotated) mod 2^32.
C9_RegisterRotation ==
    \A k \in 1..Len(events) :
        events[k].type = "round" =>
            LET before == events[k].registersBefore
                after == events[k].registersAfter
            IN  /\ Len(before) = 4
                /\ Len(after) = 4
                /\ after[1] = before[4]
                /\ after[3] = before[2]
                /\ after[4] = before[3]
                /\ IsSumMod32(after[2], before[2], events[k].rotated)

\* a round whose addition into B wraps around
C9_Witness ==
    \E k \in 1..Len(events) :
        /\ events[k].type = "round"
        /\ events[k].registersBefore[2][1] + events[k].rotated[1] >= 65536
        /\ events[k].registersAfter[1] = events[k].registersBefore[4]
        /\ events[k].registersAfter[1] # events[k].registersBefore[1]

\* 0x67452301, 0xefcdab89, 0x98badcfe, 0x10325476
C10_InitialConstants ==
    << <<26437, 8961>>, <<61389, 43913>>, <<39098, 56574>>, <<4146, 21622>> >>

\* the positions of the events of one type of chunk c
C10_At(type, c) ==
    {k \in 1..Len(events) : events[k].type = type /\ events[k].chunkIndex = c}

\* C10: the running hash changes only at chunk boundaries: it is the initial
\* constants entering chunk 0, is unchanged through the rounds of a chunk
\* (ChunkEnd.hashBefore = ChunkStart.hashBefore), enters chunk c + 1 as
\* ChunkEnd.hashAfter of chunk c, and Done.hash is the last hashAfter.
C10_HashAtChunkBoundaries ==
    /\ \A k \in C10_At("chunk-start", 0) :
           events[k].hashBefore = C10_InitialConstants
    /\ \A c \in 0..(Len(chunks) - 1) :
           \A s \in C10_At("chunk-start", c) :
               /\ pc \in {"round", "fold"} /\ ci = c => hash = events[s].hashBefore
               /\ \A e \in C10_At("chunk-end", c) :
                      events[e].hashBefore = events[s].hashBefore
               /\ \A e \in C10_At("chunk-end", c - 1) :
                      events[s].hashBefore = events[e].hashAfter
    /\ \A k \in 1..Len(events) :
           events[k].type = "done" =>
               /\ C10_At("chunk-end", Len(chunks) - 1) # {}
               /\ \A e \in C10_At("chunk-end", Len(chunks) - 1) :
                      events[k].hash = events[e].hashAfter

\* a two-chunk trace is complete and its second chunk began from the first
\* chunk's folded hash, which is not the initial one
C10_Witness ==
    /\ pc = "done"
    /\ Len(chunks) = 2
    /\ \E s \in C10_At("chunk-start", 1), e \in C10_At("chunk-end", 0) :
           /\ events[s].hashBefore = events[e].hashAfter
           /\ events[s].hashBefore # C10_InitialConstants

\* the positions of the Round events of round n of chunk c
RoundAt(c, n) ==
    {k \in 1..Len(events) :
        /\ events[k].type = "round"
        /\ events[k].chunkIndex = c
        /\ events[k].roundIndex = n}

\* C11: in every ChunkEnd event, hashAfter[k] = (hashBefore[k] +
\* registersBeforeAdd[k]) mod 2^32 for each of the 4 positions, where
\* registersBeforeAdd are the registers after round 63 of that chunk, A to
\* H0, B to H1, C to H2, D to H3; a sum of 2^32 or more wraps around, and the
\* fold never fails.
C11_FoldIsModularSum ==
    \A e \in 1..Len(events) :
        events[e].type = "chunk-end" =>
            /\ pc # "thrown"
            /\ Len(events[e].hashAfter) = 4
            /\ Len(events[e].hashBefore) = 4
            /\ Len(events[e].registersBeforeAdd) = 4
            /\ RoundAt(events[e].chunkIndex, 63) # {}
            /\ \A k \in RoundAt(events[e].chunkIndex, 63) :
                   events[e].registersBeforeAdd = events[k].registersAfter
            /\ \A k \in 1..4 :
                   IsSumMod32(events[e].hashAfter[k], events[e].hashBefore[k],
                              events[e].registersBeforeAdd[k])

\* a fold in which the sum into H0 wraps around
C11_Witness ==
    \E e \in 1..Len(events) :
        /\ events[e].type = "chunk-end"
        /\ events[e].hashBefore[1][1] + events[e].registersBeforeAdd[1][1] >= 65536
        /\ events[e].hashAfter[1][1] < events[e].hashBefore[1][1]

\* bit j (0 the least significant) of a word
C12_Bit(w, j) ==
    IF j < 16 THEN (w[2] \div (2 ^ j)) % 2 ELSE (w[1] \div (2 ^ (j - 16))) % 2

\* the boolean function of a round family on one bit of b, c and d
C12_Boolean(name, b, c, d) ==
    IF name = "F" THEN (b = 1 /\ c = 1) \/ (b = 0 /\ d = 1)
    ELSE IF name = "G" THEN (d = 1 /\ b = 1) \/ (d = 0 /\ c = 1)
    ELSE IF name = "H" THEN (b + c + d) % 2 = 1
    ELSE (c = 1) # (b = 1 \/ d = 0)

\* S[n]: four cycles of four shifts, one cycle per block of 16 rounds
C12_Shift(n) ==
    << <<7, 12, 17, 22>>, <<5, 9, 14, 20>>,
       <<4, 11, 16, 23>>, <<6, 10, 15, 21>> >>[(n \div 16) + 1][(n % 4) + 1]

\* word g of chunk c of the padded message: 4 bytes, least significant first
C12_MessageWord(padded, c, g) ==
    LET at == 64 * c + 4 * g
    IN  <<padded[at + 3] + 256 * padded[at + 4], padded[at + 1] + 256 * padded[at + 2]>>

\* z = (w + x + y + v) mod 2^32
C12_IsSum4(z, w, x, y, v) ==
    \E c0, c1 \in 0..3 :
        /\ w[2] + x[2] + y[2] + v[2] = z[2] + 65536 * c0
        /\ w[1] + x[1] + y[1] + v[1] + c0 = z[1] + 65536 * c1

C12_RoundIsRight(e) ==
    LET n == e.roundIndex
        a == e.registersBefore[1]
        b == e.registersBefore[2]
        c == e.registersBefore[3]
        d == e.registersBefore[4]
    IN  /\ n \in 0..63
        /\ e.functionName =
               (IF n < 16 THEN "F" ELSE IF n < 32 THEN "G"
                ELSE IF n < 48 THEN "H" ELSE "I")
        /\ e.g = (IF n < 16 THEN n
                  ELSE IF n < 32 THEN (5 * n + 1) % 16
                  ELSE IF n < 48 THEN (3 * n + 5) % 16
                  ELSE (7 * n) % 16)
        /\ e.messageWord = trace.chunks[e.chunkIndex + 1].words[e.g + 1]
        /\ e.messageWord = C12_MessageWord(trace.paddedBytes, e.chunkIndex, e.g)
        /\ \A j \in 0..31 :
               (C12_Bit(e.functionResult, j) = 1) =
                   C12_Boolean(e.functionName, C12_Bit(b, j), C12_Bit(c, j), C12_Bit(d, j))
        /\ e.constant = TABLE_K[n + 1]
        /\ e.shift = C12_Shift(n)
        /\ C12_IsSum4(e.sum, a, e.functionResult, e.constant, e.messageWord)
        /\ \A j \in 0..31 :
               C12_Bit(e.rotated, (j + e.shift) % 32) = C12_Bit(e.sum, j)
        /\ \A w \in {a, b, c, d, e.messageWord, e.functionResult, e.constant,
                     e.sum, e.rotated} : IsWord(w)
        /\ \A k \in 1..4 : IsWord(e.registersAfter[k])

\* C12: in every Round event with round index i and registers (a, b, c, d)
\* before: the function is F, G, H, I for i in 0..15, 16..31, 32..47,
\* 48..63; g is i, (5i+1) mod 16, (3i+5) mod 16, 7i mod 16; messageWord is
\* word g of the event's chunk; functionResult is the family's boolean
\* function of (b, c, d), bit by bit; sum = (a + functionResult + K[i] +
\* M[g]) mod 2^32; rotated is sum rotated left by S[i] within 32 bits; every
\* value is an unsigned 32-bit value.
C12_RoundComputation ==
    pc = "done" =>
        \A k \in 1..Len(trace.events) :
            trace.events[k].type = "round" => C12_RoundIsRight(trace.events[k])

\* a returned trace with a round 63 (family I, g = 9) whose sum wraps around
C12_Witness ==
    /\ pc = "done"
    /\ \E k \in 1..Len(trace.events) :
           LET e == trace.events[k] IN
           /\ e.type = "round"
           /\ e.roundIndex = 63
           /\ e.functionName = "I"
           /\ e.g = 9
           /\ e.registersBefore[1][1] + e.functionResult[1]
                  + e.constant[1] + e.messageWord[1] >= 65536

\* the registers are carried through the events of chunk c without a gap
C13_ChunkCarried(c) ==
    /\ C10_At("chunk-start", c) # {}
    /\ C10_At("chunk-end", c) # {}
    /\ \A n \in 0..63 : RoundAt(c, n) # {}
    /\ \A s \in C10_At("chunk-start", c) :
           /\ events[s].registersBefore = events[s].hashBefore
           /\ \A k \in RoundAt(c, 0) :
                  events[k].registersBefore = events[s].registersBefore
    /\ \A n \in 0..62 :
           \A k \in RoundAt(c, n), next \in RoundAt(c, n + 1) :
               events[next].registersBefore = events[k].registersAfter
    /\ \A e \in C10_At("chunk-end", c), k \in RoundAt(c, 63) :
           events[e].registersBeforeAdd = events[k].registersAfter

\* C13: within each chunk the working registers pass from event to event
\* without gaps: ChunkStart.registersBefore is the hash entering the chunk,
\* round 0 starts from ChunkStart.registersBefore, round i + 1 starts from
\* round i's registersAfter (i in 0..62), and ChunkEnd.registersBeforeAdd is
\* round 63's registersAfter.  While a chunk runs, the registers in use are
\* those of the last event.
C13_RegistersCarried ==
    /\ pc = "done" => \A c \in 0..(Len(chunks) - 1) : C13_ChunkCarried(c)
    /\ pc \in {"round", "fold"} =>
           LET last == events[Len(events)]
           IN  /\ last.type \in {"chunk-start", "round"}
               /\ last.type = "chunk-start" =>
                      regs = last.registersBefore /\ regs = hash
               /\ last.type = "round" => regs = last.registersAfter

\* a two-chunk trace is complete; its second chunk started from registers
\* other than the initial hash and carried them into round 0
C13_Witness ==
    /\ pc = "done"
    /\ Len(chunks) = 2
    /\ \E s \in C10_At("chunk-start", 1), k \in RoundAt(1, 0) :
           /\ events[s].registersBefore # C10_InitialConstants
           /\ events[k].registersBefore = events[s].registersBefore

\* C14: whatever the user does and whenever the autoplay timeout fires, the
\* displayed step currentStep is an index of an event of the current trace
\* (0 when the input is invalid and there is no trace); right after an input
\* or mode change the step is 0 and playback is stopped; right after the
\* timeout fired the step is not beyond the last event.
C14_PlaybackStepInRange ==
    /\ currentStep \in Int
    /\ Rendered =>
        /\ hasTrace <=> pc = "done"
        /\ hasTrace => currentStep \in 0..(Len(trace.events) - 1)
        /\ ~hasTrace => currentStep = 0
    /\ lastAction \in {"mode", "input"} =>
        /\ step = 0
        /\ currentStep = 0
        /\ ~isPlaying
        /\ ~playingActive
        /\ ~timer.pending
    /\ lastAction = "tick" =>
        /\ hasTrace
        /\ step <= Len(trace.events) - 1
        /\ currentStep <= Len(trace.events) - 1

\* autoplay has just stepped onto the last event of a two-chunk trace
C14_Witness ==
    /\ lastAction = "tick"
    /\ isPlaying
    /\ hasTrace
    /\ Len(trace.chunks) = 2
    /\ currentStep = Len(trace.events) - 1
    /\ ~timer.pending

===========================================================================
